---- MODULE Spec2Model ----
(***************************************************************************)
(* Soschu_Temp: threshold-gated temperature adjustment of an hourly        *)
(* weather series (hours 1..24, fixed standard time) against an hourly     *)
(* solar-irradiance series (naive local datetimes, hours 0..23), per       *)
(* facade.  The model follows src/src/core.py, src/src/weather.py,         *)
(* src/src/solar.py and src/src/config.py.                                 *)
(*                                                                         *)
(* Temperatures, irradiance values, threshold and delta_t are integers     *)
(* (degrees C, W/m2); instants are records year/month/day/hour/minute of a *)
(* non-leap calendar, as the TRY weather year has 8760 records.            *)
(***************************************************************************)
EXTENDS Integers, Sequences, FiniteSets

VARIABLES
    pc,                    \* position of the run (process_all_facades / preview)
    mode,                  \* "process" | "preview" | "none"
    config_year,           \* Config.year, the process-wide reference year
    threshold,             \* FacadeProcessor.threshold
    delta_t,               \* FacadeProcessor.delta_t
    weather_file,          \* [status, lines]: the weather file on disk
    solar_file,            \* [status, columns, rows]: the solar HTML export on disk
    weather_data,          \* result of load_weather_data
    solar_data,            \* result of load_solar_irridance_data (data points)
    facade_columns,        \* solar_metadata.facade_columns
    loads,                 \* the loads performed so far, in order
    facade_combinations,   \* sorted list of (facade_id, building_body)
    fi,                    \* index of the facade being processed
    facade_column,         \* column found for the current facade
    solar_lookup,          \* dict built for the current facade (insertion ordered)
    wi,                    \* number of weather records processed in this pass
    adjusted_weather_data, \* the adjusted series being built for this facade
    adjustments_made,      \* the facade's adjustment counter
    irradiances,           \* the matcher's result for each record of this pass
    output_files,          \* process: facade_key -> what was saved for the facade
    adjustments_by_facade, \* preview: facade_key -> number of adjustments
    sample_adjustments,    \* preview: the PreviewAdjustment samples
    error,                 \* the exception the run raised to its caller, "none" if none
    history,               \* what the caller keeps of the runs it made before this one
    call,                  \* a direct call of one function: its name and arguments
    ret,                   \* what that call returned
    button,                \* the TriggerButton widget and its worker thread
    comparison_method      \* whether WeatherDataPoint has to_datetime_for_comparison

vars == <<pc, mode, config_year, threshold, delta_t, weather_file, solar_file,
          weather_data, solar_data, facade_columns, loads, facade_combinations,
          fi, facade_column, solar_lookup, wi, adjusted_weather_data,
          adjustments_made, irradiances, output_files, adjustments_by_facade,
          sample_adjustments, error, history, call, ret,
                   button, comparison_method>>

(***************************************************************************)
(* Calendar helpers (datetime arithmetic of a non-leap year).              *)
(***************************************************************************)
DaysInMonth == <<31, 28, 31, 30, 31, 30, 31, 31, 30, 31, 30, 31>>

DaysBeforeMonth == <<0, 31, 59, 90, 120, 151, 181, 212, 243, 273, 304, 334>>

Abs(x) == IF x < 0 THEN 0 - x ELSE x

Min2(a, b) == IF a < b THEN a ELSE b

Max2(a, b) == IF a > b THEN a ELSE b

\* datetime(year, month, day, hour, minute)
Instant(y, mo, d, h, mi) ==
    [year |-> y, month |-> mo, day |-> d, hour |-> h, minute |-> mi]

\* minutes since the start of the instant's own year
MinuteOfYear(t) ==
    ((DaysBeforeMonth[t.month] + t.day - 1) * 24 + t.hour) * 60 + t.minute

\* abs((a - b).total_seconds()) for two instants of the same year
SecondsApart(a, b) == Abs(MinuteOfYear(a) - MinuteOfYear(b)) * 60

\* datetime.replace(year=y)
ReplaceYear(t, y) == [t EXCEPT !.year = y]

(***************************************************************************)
(* Daylight-Rule Evaluator: is_dst_date(month, day).                       *)
(***************************************************************************)
\* the cut-offs of the test helper is_dst_simple (tests/test_dst.py), a variant of the rule
is_dst_date_cutoff25(month, day) ==
    IF month < 3 \/ month > 10 THEN FALSE
    ELSE IF month > 3 /\ month < 10 THEN TRUE
    ELSE IF month = 3 THEN day >= 25
    ELSE day <= 25

is_dst_date(month, day) ==
    IF month < 3 \/ month > 10 THEN FALSE
    ELSE IF month > 3 /\ month < 10 THEN TRUE
    ELSE IF month = 3 THEN day >= 31
    ELSE day <= 26

(***************************************************************************)
(* WeatherDataPoint conversions.                                           *)
(***************************************************************************)
\* WeatherDataPoint.set_timestamp: the stored timestamp, hour 1..24 -> 0..23
set_timestamp(wp, year) == Instant(year, wp.month, wp.day, wp.hour - 1, 0)

\* the irradiance hour a weather record is compared at: the weather hour
\* inside the daylight period, the weather hour minus 1 outside, kept within
\* 0..23 (max(0, min(23, hour)), as tests/test_timezone.py:134-144 computes it
\* and tests/test_sync_logic.py:76 expects it: hour 24 -> 23 on 1 June)
solar_hour(wp) ==
    Max2(0, Min2(23, IF is_dst_date(wp.month, wp.day) THEN wp.hour
                     ELSE wp.hour - 1))

\* WeatherDataPoint.to_datetime_for_comparison(): the instant of that hour on
\* the record's date
to_datetime_for_comparison(wp, year) ==
    Instant(year, wp.month, wp.day, solar_hour(wp), 0)

(***************************************************************************)
(* Insertion-ordered dict: a sequence of [k, v] with distinct keys.        *)
(***************************************************************************)
\* the first position of a scan that satisfies its test, 0 when none does
FirstIndex(hits) ==
    IF hits = {} THEN 0 ELSE CHOOSE i \in hits : \A j \in hits : i <= j

DictIndex(d, key) == FirstIndex({i \in 1..Len(d) : d[i].k = key})

\* variant of the assignment: an existing entry keeps its value
DictSetKeepFirst(d, key, value) ==
    LET i == DictIndex(d, key)
    IN  IF i = 0 THEN Append(d, [k |-> key, v |-> value])
        ELSE d

\* d[key] = value
DictSet(d, key, value) ==
    LET i == DictIndex(d, key)
    IN  IF i = 0 THEN Append(d, [k |-> key, v |-> value])
        ELSE [d EXCEPT ![i] = [k |-> key, v |-> value]]

DictKeys(d) == {d[i].k : i \in 1..Len(d)}

(***************************************************************************)
(* Instant Matcher: FacadeProcessor._get_solar_irradiance_for_datetime.    *)
(***************************************************************************)
ToleranceSeconds == 1800

NotFound == [found |-> FALSE, value |-> 0]

Found(v) == [found |-> TRUE, value |-> v]

\* a call that ends in an exception instead of a value
Raised(e) == [raised |-> e]

IsRaised(r) == "raised" \in DOMAIN r

\* tier 1: solar_lookup.get(weather_dt)
Tier1(lookup, weather_dt) == DictIndex(lookup, weather_dt)

\* the hour tier 2 compares with
tier2_hour_unshifted(wp) == wp.hour

tier2_hour(wp) == wp.hour - 1

\* tier 2: first entry with the record's month and day and hour weather_hour
Tier2(lookup, wp) ==
    FirstIndex({i \in 1..Len(lookup) : /\ lookup[i].k.month = wp.month
                                        /\ lookup[i].k.day = wp.day
                                        /\ lookup[i].k.hour = tier2_hour(wp)})

\* tier 3: first entry within the tolerance of weather_dt moved to its year
Tier3(lookup, weather_dt) ==
    FirstIndex({i \in 1..Len(lookup) :
        SecondsApart(ReplaceYear(weather_dt, lookup[i].k.year), lookup[i].k)
            <= ToleranceSeconds})

\* variants of the order of the tiers
MatchTiersSkipTier1(lookup, weather_dt, wp) ==
    IF Tier2(lookup, wp) # 0 THEN [tier |-> 2, idx |-> Tier2(lookup, wp)]
    ELSE IF Tier3(lookup, weather_dt) # 0
         THEN [tier |-> 3, idx |-> Tier3(lookup, weather_dt)]
    ELSE [tier |-> 0, idx |-> 0]

MatchTiersTier3First(lookup, weather_dt, wp) ==
    IF Tier1(lookup, weather_dt) # 0
    THEN [tier |-> 1, idx |-> Tier1(lookup, weather_dt)]
    ELSE IF Tier3(lookup, weather_dt) # 0
         THEN [tier |-> 3, idx |-> Tier3(lookup, weather_dt)]
    ELSE IF Tier2(lookup, wp) # 0 THEN [tier |-> 2, idx |-> Tier2(lookup, wp)]
    ELSE [tier |-> 0, idx |-> 0]

\* core.py:183-218, the function after weather_dt has been computed: which
\* tier answered and with which entry (tier 0: none)
MatchTiers(lookup, weather_dt, wp) ==
    IF Tier1(lookup, weather_dt) # 0
    THEN [tier |-> 1, idx |-> Tier1(lookup, weather_dt)]
    ELSE IF Tier2(lookup, wp) # 0 THEN [tier |-> 2, idx |-> Tier2(lookup, wp)]
    ELSE IF Tier3(lookup, weather_dt) # 0
         THEN [tier |-> 3, idx |-> Tier3(lookup, weather_dt)]
    ELSE [tier |-> 0, idx |-> 0]

\* the whole function.  core.py:182 takes weather_dt from
\* WeatherDataPoint.to_datetime_for_comparison, which weather.py does not
\* define: with the method missing, as the sources stand, the call raises
\* AttributeError before any tier is tried; with the method defined, as it
\* is described, the three tiers follow.  Every run that reaches a record
\* of a facade with a column goes through this function.
MatchOutcome(lookup, wp, year) ==
    IF comparison_method = "missing"
    THEN Raised("AttributeError")
    ELSE MatchTiers(lookup, to_datetime_for_comparison(wp, year), wp)

get_solar_irradiance_for_datetime(lookup, wp, year) ==
    LET o == MatchOutcome(lookup, wp, year)
    IN  IF IsRaised(o) THEN o
        ELSE IF o.tier = 0 THEN NotFound ELSE Found(lookup[o.idx].v)

(***************************************************************************)
(* Column labels and facade names are strings, modelled as sequences of    *)
(* characters; the words "Building body" and "Gesamte solare               *)
(* Einstrahlung" are one token each, as no pattern matches inside them.    *)
(***************************************************************************)
Digits == {"0", "1", "2", "3", "4", "5", "6", "7", "8", "9"}

Whitespace == {" "}

\* sub in s (Python substring test)
Contains(sub, s) ==
    \E i \in 1..(Len(s) - Len(sub) + 1) : SubSeq(s, i, i + Len(sub) - 1) = sub

\* last index of the run of characters of set cs that starts at index i (i-1: none)
RunEnd(s, i, cs) ==
    LET stops == {j \in i..Len(s) : s[j] \notin cs}
    IN  IF stops = {} THEN Len(s)
        ELSE (CHOOSE j \in stops : \A k \in stops : j <= k) - 1

\* re.search(r"(f\d+)", column).group(1), <<>> when there is no match
SearchFacadeId(column) ==
    LET i == FirstIndex({j \in 1..Len(column) : /\ column[j] = "f"
                                                 /\ j < Len(column)
                                                 /\ column[j + 1] \in Digits})
    IN  IF i = 0 THEN <<>> ELSE SubSeq(column, i, RunEnd(column, i + 1, Digits))

\* re.search(r"(Building body(?:\s+\d+)?)", column).group(1), <<>> when no match
SearchBuildingBody(column) ==
    LET i == FirstIndex({j \in 1..Len(column) : column[j] = "Building body"})
    IN  IF i = 0 THEN <<>>
        ELSE LET w == RunEnd(column, i + 1, Whitespace)
                 d == RunEnd(column, w + 1, Digits)
             IN  IF w >= i + 1 /\ d >= w + 1 THEN SubSeq(column, i, d)
                 ELSE SubSeq(column, i, i)

\* code point order of the characters in use
CharRank(c) ==
    CASE c = " " -> 32
      [] c = "$" -> 36
      [] c = "," -> 44
      [] c \in Digits -> 48 + (CHOOSE n \in 0..9 :
                                  c = <<"0", "1", "2", "3", "4", "5", "6", "7", "8", "9">>[n + 1])
      [] c = "Building body" -> 66
      [] c = "Gesamte solare Einstrahlung" -> 71
      [] c = "_" -> 95
      [] c = "f" -> 102
      [] OTHER -> 119

\* a < b for two strings
RECURSIVE StrLess(_, _)
StrLess(a, b) ==
    IF b = <<>> THEN FALSE
    ELSE IF a = <<>> THEN TRUE
    ELSE IF CharRank(Head(a)) # CharRank(Head(b))
         THEN CharRank(Head(a)) < CharRank(Head(b))
    ELSE StrLess(Tail(a), Tail(b))

\* a < b for two (facade_id, building_body) tuples
PairLess(a, b) ==
    \/ StrLess(a[1], b[1])
    \/ a[1] = b[1] /\ StrLess(a[2], b[2])

\* variant of the sort: descending
SortedPairsDescending(S) ==
    CHOOSE q \in [1..Cardinality(S) -> S] :
        /\ \A i, j \in 1..Cardinality(S) : i < j => PairLess(q[j], q[i])

\* sorted(list(S)) for a set of tuples
SortedPairs(S) ==
    CHOOSE q \in [1..Cardinality(S) -> S] :
        /\ \A i, j \in 1..Cardinality(S) : i < j => PairLess(q[i], q[j])

\* CoreProcessor._extract_facade_combinations
extract_facade_combinations(columns) ==
    SortedPairs({<<SearchFacadeId(columns[i]), SearchBuildingBody(columns[i])>> :
                    i \in {j \in 1..Len(columns) :
                              /\ SearchFacadeId(columns[j]) # <<>>
                              /\ SearchBuildingBody(columns[j]) # <<>>}})

\* variant of the column search: the first column when none matches
find_facade_column_or_first(columns, facade_id, building_body) ==
    LET i == FirstIndex({j \in 1..Len(columns) :
                            /\ Contains(facade_id, columns[j])
                            /\ Contains(building_body, columns[j])})
    IN  IF i = 0 THEN columns[1] ELSE columns[i]

\* FacadeProcessor._find_facade_column, <<>> for None
find_facade_column(columns, facade_id, building_body) ==
    LET i == FirstIndex({j \in 1..Len(columns) :
                            /\ Contains(facade_id, columns[j])
                            /\ Contains(building_body, columns[j])})
    IN  IF i = 0 THEN <<>> ELSE columns[i]

\* f"{facade_id}_{building_body}"
FacadeKey(facade_id, building_body) == facade_id \o <<"_">> \o building_body

\* str.replace(old, new) for a one-character old; the word "Building body"
\* holds one space
replace(s, old, new) ==
    [i \in 1..Len(s) |->
        IF s[i] = old THEN new
        ELSE IF s[i] = "Building body" /\ old = " " /\ new = "_"
             THEN "Building_body"
        ELSE s[i]]

\* f"{weather_file_base}_{safe_facade}_{safe_building}.dat"
output_filename(weather_file_base, facade_id, building_body) ==
    weather_file_base \o <<"_">> \o replace(facade_id, "$", "_") \o <<"_">>
        \o replace(replace(building_body, " ", "_"), "$", "_")
        \o <<".dat">>

\* Path(weather_file_path).stem
WeatherFileBase == <<"weather">>

(***************************************************************************)
(* Temporal Index Builder: FacadeProcessor._create_solar_lookup.           *)
(***************************************************************************)
RECURSIVE create_solar_lookup(_, _)
create_solar_lookup(points, column) ==
    IF points = <<>> THEN <<>>
    ELSE LET n    == Len(points)
             rest == create_solar_lookup(SubSeq(points, 1, n - 1), column)
             vals == points[n].irradiance_values
             i    == DictIndex(vals, column)
         IN  IF i = 0 THEN rest
             ELSE DictSet(rest, points[n].timestamp, vals[i].v)

(***************************************************************************)
(* Readers: load_weather_data and load_solar_irridance_data.               *)
(***************************************************************************)
MinTemperature == 0 - 60

MaxTemperature == 60

\* WeatherDataPoint.validate_temperature
ValidTemperature(t) == MinTemperature <= t /\ t <= MaxTemperature

\* WeatherDataPoint(...) for one data line
ParseWeatherLine(line, year) ==
    [month |-> line.month, day |-> line.day, hour |-> line.hour,
     temperature |-> line.temperature,
     timestamp |-> set_timestamp(line, year)]

\* WeatherDataParser._parse_data_lines: lines that fail validation are skipped
RECURSIVE parse_data_lines(_, _)
parse_data_lines(lines, year) ==
    IF lines = <<>> THEN <<>>
    ELSE LET rest == parse_data_lines(Tail(lines), year)
         IN  IF ValidTemperature(Head(lines).temperature)
             THEN <<ParseWeatherLine(Head(lines), year)>> \o rest
             ELSE rest

\* one table row: a value for each column that has a cell
ParseSolarRow(row, columns) ==
    [timestamp |-> row.timestamp,
     irradiance_values |->
         [i \in 1..Min2(Len(columns), Len(row.cells)) |->
             [k |-> columns[i], v |-> row.cells[i]]]]

\* the rows read by SolarDataParser._parse_data_table (max_rows 0: no limit)
RowsRead(rows, max_rows) ==
    IF max_rows # 0 /\ Len(rows) > max_rows THEN SubSeq(rows, 1, max_rows)
    ELSE rows

\* variant of the workaround: a copy is prepended whatever the first hour is
apply_ida_workaround_always(points) ==
    IF points = <<>> THEN points
    ELSE <<[timestamp |-> [points[1].timestamp EXCEPT !.hour = 0, !.minute = 0],
            irradiance_values |-> points[1].irradiance_values]>> \o points

\* variant of the workaround: nothing is prepended
apply_ida_workaround_skipped(points) == points

\* SolarDataParser._apply_ida_workaround
apply_ida_workaround(points) ==
    IF points = <<>> THEN points
    ELSE IF points[1].timestamp.hour # 1 THEN points
    ELSE <<[timestamp |-> [points[1].timestamp EXCEPT !.hour = 0, !.minute = 0],
            irradiance_values |-> points[1].irradiance_values]>> \o points

\* SolarDataParser._parse_data_table
parse_data_table(rows, columns, max_rows) ==
    apply_ida_workaround(
        [i \in 1..Len(RowsRead(rows, max_rows)) |->
            ParseSolarRow(RowsRead(rows, max_rows)[i], columns)])

\* parse_file of both readers: a path that does not exist raises
\* FileNotFoundError; anything raised while opening or parsing is caught and
\* raised again as ValueError
path_exists_any(file) == TRUE

path_exists(file) == file.status # "missing"

parse_file_error(file) ==
    IF ~path_exists(file) THEN "FileNotFoundError"
    ELSE IF file.status = "unreadable" THEN "ValueError: Failed to parse"
    ELSE "none"

\* load_solar_irridance_data: if not data_points
no_data_points_never(points) == FALSE

no_data_points(points) == points = <<>>

\* WeatherDataParser._extract_data_lines: every data line, parsed or not
extract_data_lines(lines) == lines

\* WeatherDataPoint.to_original_format_line
to_original_format_line(point, original_line) == original_line

\* WeatherDataPoint._format_standard_line (the fields the model carries)
format_standard_line(point) ==
    [month |-> point.month, day |-> point.day, hour |-> point.hour,
     temperature |-> point.temperature]

\* CoreProcessor.save_weather_data: the data lines written to the output file
save_weather_data(original_data_lines, data) ==
    IF Len(original_data_lines) = Len(data)
    THEN [i \in 1..Len(data) |->
             to_original_format_line(data[i], original_data_lines[i])]
    ELSE [i \in 1..Len(data) |-> format_standard_line(data[i])]

\* object identity: the i-th record of the loaded weather series, and the
\* object deepcopy creates for the i-th record in the f-th call of
\* process_facade_data
OriginalIds(n) == [i \in 1..n |-> <<0, i>>]

\* variant of the copy: the caller's record objects are appended themselves
CopyIdsAliased(f, n) == [i \in 1..n |-> <<0, i>>]

CopyIds(f, n) == [i \in 1..n |-> <<f, i>>]

\* the weather metadata as loaded: it names no facade and no adjustment count
OriginalMetadata == [processed |-> FALSE]

\* FacadeProcessor._create_adjusted_metadata: a copy whose data_basis_3
\* carries the processing information with the adjustment count
create_adjusted_metadata(adjustments) ==
    [processed |-> TRUE, adjustments |-> adjustments]

\* WeatherDataPoint.to_datetime_for_comparison is called at core.py:182 and
\* is not defined in weather.py: as the sources stand ("missing") the call
\* raises AttributeError; "defined" is the class with the method as it is
\* described
ComparisonMethods == {"defined", "missing"}

\* no TriggerButton has been constructed
NoButton == [constructed |-> FALSE]

\* the years a file or the configuration may carry
Years == {2025, 2045}

(***************************************************************************)
(* The run's variables when no run is in progress.                         *)
(***************************************************************************)
RunIdle ==
    /\ pc = "idle"
    /\ mode = "none"
    /\ threshold = 0
    /\ delta_t = 0
    /\ weather_file = [status |-> "ok", lines |-> <<>>]
    /\ solar_file = [status |-> "ok", columns |-> <<>>, rows |-> <<>>]
    /\ weather_data = <<>>
    /\ solar_data = <<>>
    /\ facade_columns = <<>>
    /\ loads = <<>>
    /\ facade_combinations = <<>>
    /\ fi = 0
    /\ facade_column = <<>>
    /\ solar_lookup = <<>>
    /\ wi = 0
    /\ adjusted_weather_data = <<>>
    /\ adjustments_made = 0
    /\ irradiances = <<>>
    /\ output_files = <<>>
    /\ adjustments_by_facade = <<>>
    /\ sample_adjustments = <<>>
    /\ error = "none"
    /\ history = <<>>

runVars == <<pc, mode, threshold, delta_t, weather_file, solar_file,
             weather_data, solar_data, facade_columns, loads,
             facade_combinations, fi, facade_column, solar_lookup, wi,
             adjusted_weather_data, adjustments_made, irradiances,
             output_files, adjustments_by_facade, sample_adjustments, error,
             history>>


(***************************************************************************)
(* Spec: one run of process_all_facades or preview_weather_solar_processing *)
(* over a weather file and a solar export drawn from small sets.           *)
(***************************************************************************)
MaxWeather == 2

MaxSolar == 2

MaxSampleAdjustments == 20

Thresholds == {0, 200}

Deltas == {0, 7}

\* the year the solar export is written in
SolarFileYear == 2025

ColumnLabel(digit, body) ==
    <<"Gesamte solare Einstrahlung", ",", " ", "f", digit, "$">> \o body
        \o <<",", " ", "W/m2">>

SolarColumns ==
    <<ColumnLabel("1", <<"Building body">>),
      ColumnLabel("2", <<"Building body", " ", "2">>)>>

\* data lines of the weather file: month, day, hour (1..24), temperature
\* (the line with temperature 70 fails validation and is skipped by the reader)
WeatherLines ==
    {[month |-> 1, day |-> 15, hour |-> 2, temperature |-> 20],
     [month |-> 6, day |-> 15, hour |-> 14, temperature |-> 55],
     [month |-> 6, day |-> 15, hour |-> 14, temperature |-> 20],
     [month |-> 1, day |-> 15, hour |-> 2, temperature |-> 70]}

\* rows of the solar table: a timestamp and one cell per column
SolarRows ==
    {[timestamp |-> Instant(SolarFileYear, dt[1], dt[2], dt[3], 0), cells |-> c] :
        dt \in {<<1, 15, 1>>, <<6, 15, 14>>},
        c \in {<<300, 200>>, <<100, 300>>}}

SeqsUpTo(S, n) == UNION {[1..k -> S] : k \in 0..n}

\* a file is there, is missing, or is there and cannot be read
FileStatuses == {"ok", "missing", "unreadable"}

WeatherFiles ==
    {[status |-> "ok", lines |-> ls] : ls \in SeqsUpTo(WeatherLines, MaxWeather)}
        \cup {[status |-> st, lines |-> <<>>] : st \in FileStatuses \ {"ok"}}

SolarFiles ==
    {[status |-> "ok", columns |-> SolarColumns, rows |-> rows] :
        rows \in SeqsUpTo(SolarRows, MaxSolar)}
        \cup {[status |-> st, columns |-> <<>>, rows |-> <<>>] :
                  st \in FileStatuses \ {"ok"}}

Init ==
    /\ pc = "start"
    /\ mode \in {"process", "preview"}
    /\ config_year \in Years
    /\ threshold \in Thresholds
    /\ delta_t \in Deltas
    /\ weather_file \in WeatherFiles
    /\ solar_file \in SolarFiles
    /\ weather_data = <<>>
    /\ solar_data = <<>>
    /\ facade_columns = <<>>
    /\ loads = <<>>
    /\ facade_combinations = <<>>
    /\ fi = 0
    /\ facade_column = <<>>
    /\ solar_lookup = <<>>
    /\ wi = 0
    /\ adjusted_weather_data = <<>>
    /\ adjustments_made = 0
    /\ irradiances = <<>>
    /\ output_files = <<>>
    /\ adjustments_by_facade = <<>>
    /\ sample_adjustments = <<>>
    /\ error = "none"
    /\ history = <<>>
    /\ call = [fn |-> "none"]
    /\ ret = [done |-> FALSE]
    /\ button = NoButton
    /\ comparison_method \in ComparisonMethods

\* core.py:290 / core.py:470: load_weather_data(weather_file_path); what the
\* reader raises is not caught
LoadWeather ==
    /\ pc = "start"
    /\ loads' = Append(loads, "weather")
    /\ IF parse_file_error(weather_file) # "none"
       THEN /\ pc' = "failed"
            /\ error' = parse_file_error(weather_file)
            /\ UNCHANGED weather_data
       ELSE /\ pc' = "weather_loaded"
            /\ weather_data' = parse_data_lines(weather_file.lines, config_year)
            /\ UNCHANGED error
    /\ UNCHANGED <<mode, config_year, threshold, delta_t, weather_file, solar_file,
                   solar_data, facade_columns, facade_combinations, fi,
                   facade_column, solar_lookup, wi, adjusted_weather_data,
                   adjustments_made, irradiances, output_files,
                   adjustments_by_facade, sample_adjustments, history, call, ret,
                   button, comparison_method>>

\* core.py:294 / core.py:474: load_solar_irridance_data(solar_file_path);
\* an export without data points raises ValueError
LoadSolar ==
    /\ pc = "weather_loaded"
    /\ loads' = Append(loads, "solar")
    /\ LET points == parse_data_table(solar_file.rows, solar_file.columns, 0)
       IN  IF parse_file_error(solar_file) # "none"
           THEN /\ pc' = "failed"
                /\ error' = parse_file_error(solar_file)
                /\ UNCHANGED <<solar_data, facade_columns>>
           ELSE IF no_data_points(points)
           THEN /\ pc' = "failed"
                /\ error' = "ValueError: No data points found"
                /\ UNCHANGED <<solar_data, facade_columns>>
           ELSE /\ pc' = "solar_loaded"
                /\ solar_data' = points
                /\ facade_columns' = solar_file.columns
                /\ UNCHANGED error
    /\ UNCHANGED <<mode, config_year, threshold, delta_t, weather_file, solar_file,
                   weather_data, facade_combinations, fi, facade_column,
                   solar_lookup, wi, adjusted_weather_data, adjustments_made,
                   irradiances, output_files, adjustments_by_facade,
                   sample_adjustments, history, call, ret,
                   button, comparison_method>>

\* core.py:298 / core.py:479: _extract_facade_combinations(solar_metadata)
ExtractFacades ==
    /\ pc = "solar_loaded"
    /\ facade_combinations' = extract_facade_combinations(facade_columns)
    /\ fi' = 0
    /\ pc' = "facades"
    /\ UNCHANGED <<mode, config_year, threshold, delta_t, weather_file, solar_file,
                   weather_data, solar_data, facade_columns, loads, facade_column,
                   solar_lookup, wi, adjusted_weather_data, adjustments_made,
                   irradiances, output_files, adjustments_by_facade,
                   sample_adjustments, error, history, call, ret,
                   button, comparison_method>>

CurrentFacade == facade_combinations[fi]

CurrentKey == FacadeKey(CurrentFacade[1], CurrentFacade[2])

\* core.py:66-70: without a column process_facade_data returns the series it
\* was given
no_column_result_empty(data) == <<>>

no_column_result(data) == data

\* the next facade of the loop: find its column and build its lookup; without
\* a column the facade is settled at once (process_facade_data returns the
\* metadata and the series it was given, which are saved; the preview
\* records 0).  The facades of the loop are read from the columns, and each
\* of them finds a column.
StartFacade ==
    /\ pc = "facades"
    /\ fi < Len(facade_combinations)
    /\ fi' = fi + 1
    /\ LET pair   == facade_combinations[fi + 1]
           column == find_facade_column(facade_columns, pair[1], pair[2])
           key    == FacadeKey(pair[1], pair[2])
       IN  /\ facade_column' = column
           /\ wi' = 0
           /\ adjusted_weather_data' = <<>>
           /\ adjustments_made' = 0
           /\ irradiances' = <<>>
           /\ IF column = <<>>
              THEN /\ pc' = "facades"
                   /\ solar_lookup' = <<>>
                   /\ IF mode = "process"
                      THEN /\ output_files' =
                                  DictSet(output_files, key,
                                          [data |-> no_column_result(weather_data),
                                           metadata |-> OriginalMetadata,
                                           file |-> output_filename(
                                               WeatherFileBase, pair[1], pair[2]),
                                           oids |-> OriginalIds(
                                               Len(no_column_result(weather_data))),
                                           lines |-> save_weather_data(
                                               extract_data_lines(weather_file.lines),
                                               no_column_result(weather_data))])
                           /\ UNCHANGED adjustments_by_facade
                      ELSE /\ adjustments_by_facade' =
                                  DictSet(adjustments_by_facade, key, 0)
                           /\ UNCHANGED output_files
              ELSE /\ pc' = "records"
                   /\ solar_lookup' = create_solar_lookup(solar_data, column)
                   /\ UNCHANGED <<output_files, adjustments_by_facade>>
    /\ UNCHANGED <<mode, config_year, threshold, delta_t, weather_file, solar_file,
                   weather_data, solar_data, facade_columns, loads,
                   facade_combinations, sample_adjustments, error, history, call, ret,
                   button, comparison_method>>

\* variant of the threshold test: values under the threshold pass
ExceedsThresholdBelow(irr, thr) == irr.found /\ irr.value < thr

\* variants of the threshold test: not strict; not-found taken as exceeding
ExceedsThresholdNotStrict(irr, thr) == irr.found /\ irr.value >= thr

ExceedsThresholdOrMissing(irr, thr) == ~irr.found \/ irr.value > thr

\* the threshold test of core.py:91 and core.py:517
ExceedsThreshold(irr, thr) == irr.found /\ irr.value > thr

\* variant of the adjustment: the timestamp falls back to the field's default
AdjustTemperatureDefaultTimestamp(point, delta, year) ==
    [point EXCEPT !.temperature = point.temperature + delta,
                  !.timestamp = Instant(2045, 1, 1, 0, 0)]

\* variant of the adjustment: the delta applied twice
AdjustTemperatureTwice(point, delta, year) ==
    [point EXCEPT !.temperature = point.temperature + 2 * delta,
                  !.timestamp = set_timestamp(point, year)]

\* adjusted_point.temperature += delta_t, with validate_assignment: the model
\* validator sets the timestamp again
AdjustTemperature(point, delta, year) ==
    [point EXCEPT !.temperature = point.temperature + delta,
                  !.timestamp = set_timestamp(point, year)]

\* process_facade_data, one iteration of the loop over weather_data; the
\* AttributeError of the matcher's call of a missing method and the
\* ValidationError of an adjusted temperature outside the validated range
\* are caught nowhere
ProcessRecord ==
    /\ pc = "records"
    /\ mode = "process"
    /\ wi < Len(weather_data)
    /\ LET point == weather_data[wi + 1]
           irr   == get_solar_irradiance_for_datetime(solar_lookup, point, config_year)
       IN  IF IsRaised(irr)
           THEN /\ pc' = "failed"
                /\ error' = irr.raised
                /\ UNCHANGED <<adjusted_weather_data, adjustments_made,
                               irradiances, wi>>
           ELSE IF ExceedsThreshold(irr, threshold)
           THEN IF ValidTemperature(point.temperature + delta_t)
                THEN /\ adjusted_weather_data' =
                            Append(adjusted_weather_data,
                                   AdjustTemperature(point, delta_t, config_year))
                     /\ adjustments_made' = adjustments_made + 1
                     /\ irradiances' = Append(irradiances, irr)
                     /\ wi' = wi + 1
                     /\ pc' = "records"
                     /\ UNCHANGED error
                ELSE /\ pc' = "failed"
                     /\ error' = "ValidationError"
                     /\ UNCHANGED <<adjusted_weather_data, adjustments_made,
                                    irradiances, wi>>
           ELSE /\ adjusted_weather_data' = Append(adjusted_weather_data, point)
                /\ irradiances' = Append(irradiances, irr)
                /\ wi' = wi + 1
                /\ pc' = "records"
                /\ UNCHANGED <<adjustments_made, error>>
    /\ UNCHANGED <<mode, config_year, threshold, delta_t, weather_file, solar_file,
                   weather_data, solar_data, facade_columns, loads,
                   facade_combinations, fi, facade_column, solar_lookup,
                   output_files, adjustments_by_facade, sample_adjustments,
                   history, call, ret,
                   button, comparison_method>>

\* preview_weather_solar_processing, one iteration of the loop over
\* weather_data; the AttributeError of the matcher's call is caught nowhere
PreviewRecord ==
    /\ pc = "records"
    /\ mode = "preview"
    /\ wi < Len(weather_data)
    /\ LET point == weather_data[wi + 1]
           irr   == get_solar_irradiance_for_datetime(solar_lookup, point, config_year)
       IN  IF IsRaised(irr)
           THEN /\ pc' = "failed"
                /\ error' = irr.raised
                /\ UNCHANGED <<irradiances, wi, adjustments_made,
                               sample_adjustments>>
           ELSE /\ irradiances' = Append(irradiances, irr)
                /\ wi' = wi + 1
                /\ UNCHANGED <<pc, error>>
                /\ IF ExceedsThreshold(irr, threshold)
                   THEN /\ adjustments_made' = adjustments_made + 1
                        /\ IF Len(sample_adjustments) < MaxSampleAdjustments
                           THEN sample_adjustments' =
                                    Append(sample_adjustments,
                                           [facade |-> CurrentFacade,
                                            month |-> point.month,
                                            day |-> point.day,
                                            hour |-> point.hour,
                                            original_temp |-> point.temperature,
                                            adjusted_temp |-> point.temperature + delta_t,
                                            solar_irradiance |-> irr.value,
                                            threshold |-> threshold])
                           ELSE UNCHANGED sample_adjustments
                   ELSE UNCHANGED <<adjustments_made, sample_adjustments>>
    /\ UNCHANGED <<mode, config_year, threshold, delta_t, weather_file,
                   solar_file, weather_data, solar_data, facade_columns, loads,
                   facade_combinations, fi, facade_column, solar_lookup,
                   adjusted_weather_data, output_files, adjustments_by_facade,
                   history, call, ret,
                   button, comparison_method>>

\* the end of a facade's pass: process saves the adjusted series under the
\* facade key (core.py:336-341), the preview records the count (core.py:534)
FinishFacade ==
    /\ pc = "records"
    /\ wi = Len(weather_data)
    /\ pc' = "facades"
    /\ IF mode = "process"
       THEN /\ output_files' =
                   DictSet(output_files, CurrentKey,
                           [data |-> adjusted_weather_data,
                            metadata |-> create_adjusted_metadata(adjustments_made),
                            file |-> output_filename(
                                WeatherFileBase, CurrentFacade[1], CurrentFacade[2]),
                            oids |-> CopyIds(fi, Len(adjusted_weather_data)),
                            lines |-> save_weather_data(
                                extract_data_lines(weather_file.lines),
                                adjusted_weather_data)])
            /\ UNCHANGED adjustments_by_facade
       ELSE /\ adjustments_by_facade' =
                   DictSet(adjustments_by_facade, CurrentKey, adjustments_made)
            /\ UNCHANGED output_files
    /\ UNCHANGED <<mode, config_year, threshold, delta_t, weather_file, solar_file,
                   weather_data, solar_data, facade_columns, loads,
                   facade_combinations, fi, facade_column, solar_lookup, wi,
                   adjusted_weather_data, adjustments_made, irradiances,
                   sample_adjustments, error, history, call, ret,
                   button, comparison_method>>

\* the loop over the facades is over: the run returns its result
FinishRun ==
    /\ pc = "facades"
    /\ fi = Len(facade_combinations)
    /\ pc' = "done"
    /\ UNCHANGED <<mode, config_year, threshold, delta_t, weather_file, solar_file,
                   weather_data, solar_data, facade_columns, loads,
                   facade_combinations, fi, facade_column, solar_lookup, wi,
                   adjusted_weather_data, adjustments_made, irradiances,
                   output_files, adjustments_by_facade, sample_adjustments,
                   error, history, call, ret,
                   button, comparison_method>>

Next ==
    \/ LoadWeather
    \/ LoadSolar
    \/ ExtractFacades
    \/ StartFacade
    \/ ProcessRecord
    \/ PreviewRecord
    \/ FinishFacade
    \/ FinishRun

Spec == Init /\ [][Next]_vars

(***************************************************************************)
(* SpecEngine: FacadeProcessor.process_facade_data called by its caller    *)
(* for facades it names, one call after the other, on the two series as    *)
(* the loaders returned them (tests/test_integration.py:109-132).  The     *)
(* method takes any facade_id and building_body; a named facade may be one *)
(* that no column of the export carries.  The caller keeps every returned  *)
(* pair of metadata and series.                                            *)
(***************************************************************************)
MaxCalls == 2

FacadeF1 == <<<<"f", "1">>, <<"Building body">>>>

FacadeF3 == <<<<"f", "3">>, <<"Building body">>>>

\* the facades the caller names: one with a column, one without
EngineFacades == {FacadeF1, FacadeF3}

InitEngine ==
    /\ pc = "engine"
    /\ mode = "process"
    /\ config_year = SolarFileYear
    /\ threshold = 200
    /\ delta_t = 7
    /\ weather_file \in {f \in WeatherFiles : f.status = "ok"}
    /\ solar_file \in {f \in SolarFiles : f.status = "ok" /\ f.rows # <<>>}
    /\ weather_data = parse_data_lines(weather_file.lines, config_year)
    /\ solar_data = parse_data_table(solar_file.rows, solar_file.columns, 0)
    /\ facade_columns = solar_file.columns
    /\ loads = <<"weather", "solar">>
    /\ facade_combinations = <<>>
    /\ fi = 0
    /\ facade_column = <<>>
    /\ solar_lookup = <<>>
    /\ wi = 0
    /\ adjusted_weather_data = <<>>
    /\ adjustments_made = 0
    /\ irradiances = <<>>
    /\ output_files = <<>>
    /\ adjustments_by_facade = <<>>
    /\ sample_adjustments = <<>>
    /\ error = "none"
    /\ history = <<>>
    /\ call = [fn |-> "none"]
    /\ ret = [done |-> FALSE, results |-> <<>>]
    /\ button = NoButton
    /\ comparison_method \in ComparisonMethods

\* core.py:60-79: process_facade_data is entered; without a column it
\* returns the metadata and the series it was given, otherwise it builds the
\* lookup and starts its pass.  fi counts the calls.
CallFacade ==
    /\ pc = "engine"
    /\ Len(ret.results) < MaxCalls
    /\ \E pair \in EngineFacades :
          LET column == find_facade_column(facade_columns, pair[1], pair[2])
          IN  /\ call' = [fn |-> "process_facade_data", facade |-> pair]
              /\ fi' = fi + 1
              /\ facade_column' = column
              /\ wi' = 0
              /\ adjusted_weather_data' = <<>>
              /\ adjustments_made' = 0
              /\ irradiances' = <<>>
              /\ IF column = <<>>
                 THEN /\ pc' = "engine"
                      /\ solar_lookup' = <<>>
                      /\ ret' = [ret EXCEPT !.results =
                                    Append(@, [facade   |-> pair,
                                               metadata |-> OriginalMetadata,
                                               data     |-> no_column_result(weather_data),
                                               oids     |-> OriginalIds(
                                                   Len(no_column_result(weather_data)))])]
                 ELSE /\ pc' = "records"
                      /\ solar_lookup' = create_solar_lookup(solar_data, column)
                      /\ UNCHANGED ret
    /\ UNCHANGED <<mode, config_year, threshold, delta_t, weather_file, solar_file,
                   weather_data, solar_data, facade_columns, loads,
                   facade_combinations, output_files, adjustments_by_facade,
                   sample_adjustments, error, history,
                   button, comparison_method>>

\* core.py:102-111: the pass is over, process_facade_data returns the
\* adjusted metadata and the adjusted series
ReturnFacade ==
    /\ pc = "records"
    /\ mode = "process"
    /\ call.fn = "process_facade_data"
    /\ wi = Len(weather_data)
    /\ pc' = "engine"
    /\ ret' = [ret EXCEPT !.results =
                  Append(@, [facade   |-> call.facade,
                             metadata |-> create_adjusted_metadata(adjustments_made),
                             data     |-> adjusted_weather_data,
                             oids     |-> CopyIds(fi, Len(adjusted_weather_data))])]
    /\ UNCHANGED <<mode, config_year, threshold, delta_t, weather_file, solar_file,
                   weather_data, solar_data, facade_columns, loads,
                   facade_combinations, fi, facade_column, solar_lookup, wi,
                   adjusted_weather_data, adjustments_made, irradiances,
                   output_files, adjustments_by_facade, sample_adjustments,
                   error, history, call,
                   button, comparison_method>>

NextEngine ==
    \/ CallFacade
    \/ ProcessRecord
    \/ ReturnFacade

SpecEngine == InitEngine /\ [][NextEngine]_vars

(***************************************************************************)
(* SpecRuns: a caller that makes a second run on the same two files, as    *)
(* the preview followed by the processing, or the same function called     *)
(* again with another threshold.  The caller keeps the counts the first    *)
(* run reported; Config.year, process-wide, stays what it was.             *)
(***************************************************************************)
\* the adjustment count per facade key that a finished run reports
RunCounts ==
    IF mode = "preview" THEN adjustments_by_facade
    ELSE [i \in 1..Len(output_files) |->
             [k |-> output_files[i].k,
              v |-> IF output_files[i].v.metadata.processed
                    THEN output_files[i].v.metadata.adjustments ELSE 0]]

InitRuns ==
    /\ Init
    /\ config_year = SolarFileYear
    /\ delta_t = 7
    /\ weather_file.status = "ok"
    /\ \A i \in 1..Len(weather_file.lines) :
           ValidTemperature(weather_file.lines[i].temperature)
    /\ solar_file.status = "ok"
    /\ solar_file.rows # <<>>

\* the first run returned or raised; the caller calls again
Restart ==
    /\ pc \in {"done", "failed"}
    /\ history = <<>>
    /\ history' = <<[mode |-> mode, threshold |-> threshold,
                     failed |-> (pc = "failed"), counts |-> RunCounts]>>
    /\ pc' = "start"
    /\ mode' \in {"process", "preview"}
    /\ threshold' \in Thresholds
    /\ weather_data' = <<>>
    /\ solar_data' = <<>>
    /\ facade_columns' = <<>>
    /\ loads' = <<>>
    /\ facade_combinations' = <<>>
    /\ fi' = 0
    /\ facade_column' = <<>>
    /\ solar_lookup' = <<>>
    /\ wi' = 0
    /\ adjusted_weather_data' = <<>>
    /\ adjustments_made' = 0
    /\ irradiances' = <<>>
    /\ output_files' = <<>>
    /\ adjustments_by_facade' = <<>>
    /\ sample_adjustments' = <<>>
    /\ error' = "none"
    /\ UNCHANGED <<config_year, delta_t, weather_file, solar_file, call, ret,
                   button, comparison_method>>

NextRuns ==
    \/ Next
    \/ Restart

SpecRuns == InitRuns /\ [][NextRuns]_vars

(***************************************************************************)
(* SpecDst: is_dst_date applied to every calendar day.                     *)
(***************************************************************************)
InitDst ==
    /\ RunIdle
    /\ config_year = 2025
    /\ \E m \in 1..12 : \E d \in 1..DaysInMonth[m] :
          call = [fn |-> "is_dst_date", month |-> m, day |-> d]
    /\ ret = [done |-> FALSE]
    /\ button = NoButton
    /\ comparison_method = "missing"

CallDst ==
    /\ call.fn = "is_dst_date"
    /\ ~ret.done
    /\ ret' = [done |-> TRUE, value |-> is_dst_date(call.month, call.day)]
    /\ UNCHANGED <<runVars, config_year, call, button, comparison_method>>

NextDst == CallDst

SpecDst == InitDst /\ [][NextDst]_vars

(***************************************************************************)
(* SpecMatch: the Instant Matcher applied to one weather record and one    *)
(* lookup.  The lookup's keys lie around the record's hour (two hours      *)
(* before to one hour after hour-1), in either year, on or off the hour;   *)
(* the i-th inserted entry carries the value 100*i.                        *)
(***************************************************************************)
MaxLookup == 2

MatchDates == {<<1, 15>>, <<6, 15>>}

MatchHours == {1, 14, 24}

KeyMinutes == {0, 40, 50}

KeyOffsets == {0 - 2, 0 - 1, 0, 1}

WeatherPoint(mo, d, h, t) ==
    [month |-> mo, day |-> d, hour |-> h, temperature |-> t]

\* the instant off hours after hour-1 of the record's day (mid-month days only)
KeyAt(wp, y, off, mi) ==
    LET h == wp.hour - 1 + off
    IN  IF h < 0 THEN Instant(y, wp.month, wp.day - 1, h + 24, mi)
        ELSE IF h > 23 THEN Instant(y, wp.month, wp.day + 1, h - 24, mi)
        ELSE Instant(y, wp.month, wp.day, h, mi)

KeyCandidates(wp) ==
    {KeyAt(wp, y, off, mi) : y \in Years, off \in KeyOffsets, mi \in KeyMinutes}

KeySeqs(wp) ==
    UNION {{ks \in [1..n -> KeyCandidates(wp)] :
               \A i, j \in 1..n : i # j => ks[i] # ks[j]} : n \in 0..MaxLookup}

LookupOf(ks) == [i \in 1..Len(ks) |-> [k |-> ks[i], v |-> 100 * i]]

InitMatch ==
    /\ RunIdle
    /\ config_year \in Years
    /\ \E dt \in MatchDates : \E h \in MatchHours :
          LET wp == WeatherPoint(dt[1], dt[2], h, 20)
          IN  \E ks \in KeySeqs(wp) :
                 call = [fn |-> "match", lookup |-> LookupOf(ks), point |-> wp]
    /\ ret = [done |-> FALSE]
    /\ button = NoButton
    /\ comparison_method \in ComparisonMethods

CallMatch ==
    /\ call.fn = "match"
    /\ ~ret.done
    /\ IF IsRaised(get_solar_irradiance_for_datetime(
                       call.lookup, call.point, config_year))
       THEN ret' = [done   |-> TRUE,
                    raised |-> get_solar_irradiance_for_datetime(
                                   call.lookup, call.point, config_year).raised]
       ELSE ret' = [done    |-> TRUE,
                    raised  |-> "none",
                    result  |-> get_solar_irradiance_for_datetime(
                                    call.lookup, call.point, config_year),
                    outcome |-> MatchOutcome(call.lookup, call.point, config_year),
                    probe1  |-> to_datetime_for_comparison(call.point, config_year),
                    probe2  |-> tier2_hour(call.point)]
    /\ UNCHANGED <<runVars, config_year, call, button, comparison_method>>

NextMatch == CallMatch

SpecMatch == InitMatch /\ [][NextMatch]_vars

(***************************************************************************)
(* SpecIndex: the solar table parsed and the lookup of one column built    *)
(* from it.  The rows lie in the first hours of one day, in any order,     *)
(* and a row may lack the cell of the second column.                       *)
(***************************************************************************)
IndexHours == {0, 1, 2}

IndexCells == {<<300, 200>>, <<100>>, <<50, 60>>}

IndexRows ==
    {[timestamp |-> Instant(SolarFileYear, 1, 15, h, 0), cells |-> c] :
        h \in IndexHours, c \in IndexCells}

InitIndex ==
    /\ RunIdle
    /\ config_year = SolarFileYear
    /\ \E rows \in SeqsUpTo(IndexRows, MaxSolar) :
          \E c \in 1..Len(SolarColumns) :
              call = [fn |-> "index", rows |-> rows, column |-> c]
    /\ ret = [done |-> FALSE]
    /\ button = NoButton
    /\ comparison_method = "missing"

CallIndex ==
    /\ call.fn = "index"
    /\ ~ret.done
    /\ LET points == parse_data_table(call.rows, SolarColumns, 0)
       IN  ret' = [done   |-> TRUE,
                   points |-> points,
                   lookup |-> create_solar_lookup(points, SolarColumns[call.column]),
                   lookups |-> [c \in 1..Len(SolarColumns) |->
                                   create_solar_lookup(points, SolarColumns[c])]]
    /\ UNCHANGED <<runVars, config_year, call, button, comparison_method>>

NextIndex == CallIndex

SpecIndex == InitIndex /\ [][NextIndex]_vars

(***************************************************************************)
(* SpecLimit: the solar table parsed by a parser constructed with a        *)
(* positive max_rows.                                                      *)
(***************************************************************************)
RowLimits == {1, 2}

InitLimit ==
    /\ RunIdle
    /\ config_year = SolarFileYear
    /\ \E rows \in SeqsUpTo(IndexRows, MaxSolar) :
          \E max_rows \in RowLimits :
              call = [fn |-> "parse", rows |-> rows, max_rows |-> max_rows]
    /\ ret = [done |-> FALSE]
    /\ button = NoButton
    /\ comparison_method = "missing"

CallLimit ==
    /\ call.fn = "parse"
    /\ ~ret.done
    /\ ret' = [done   |-> TRUE,
               points |-> parse_data_table(call.rows, SolarColumns, call.max_rows)]
    /\ UNCHANGED <<runVars, config_year, call, button, comparison_method>>

NextLimit == CallLimit

SpecLimit == InitLimit /\ [][NextLimit]_vars

(***************************************************************************)
(* SpecCatalog: the Facade Catalog Resolver applied to the facade_columns  *)
(* of one SolarFileMetadata: _extract_facade_combinations, and             *)
(* _find_facade_column for each facade it returned.                        *)
(***************************************************************************)
MaxColumns == 3

\* a label of the data table header (solar.py:224-230 keeps the labels that
\* hold "Gesamte solare Einstrahlung" and "W/m2")
HeaderLabel(name) ==
    <<"Gesamte solare Einstrahlung", ",", " ">> \o name \o <<",", " ", "W/m2">>

CatalogIds == {<<"f", "1">>, <<"f", "1", "0">>, <<"f", "2">>}

CatalogBodies == {<<"Building body">>, <<"Building body", " ", "2">>}

\* the facade labels, a label of a facade without a building body and a label
\* without a facade
CatalogLabels ==
    {HeaderLabel(id \o <<"$">> \o body) : id \in CatalogIds, body \in CatalogBodies}
        \cup {HeaderLabel(<<"f", "3", "$", "Zone">>), HeaderLabel(<<"Total">>)}

InitCatalog ==
    /\ RunIdle
    /\ config_year = SolarFileYear
    /\ \E columns \in SeqsUpTo(CatalogLabels, MaxColumns) :
          call = [fn |-> "catalog", columns |-> columns]
    /\ ret = [done |-> FALSE]
    /\ button = NoButton
    /\ comparison_method = "missing"

CallCatalog ==
    /\ call.fn = "catalog"
    /\ ~ret.done
    /\ LET combinations == extract_facade_combinations(call.columns)
       IN  ret' = [done         |-> TRUE,
                   combinations |-> combinations,
                   found        |-> [i \in 1..Len(combinations) |->
                                        find_facade_column(call.columns,
                                                           combinations[i][1],
                                                           combinations[i][2])]]
    /\ UNCHANGED <<runVars, config_year, call, button, comparison_method>>

NextCatalog == CallCatalog

SpecCatalog == InitCatalog /\ [][NextCatalog]_vars

(***************************************************************************)
(* SpecButton: one TriggerButton (gui/components/trigger_button.py).  The  *)
(* handlers _on_click, _schedule_validation_check, force_validate and      *)
(* set_backend_function run on the Tk main thread, one at a time;          *)
(* _execute_backend runs on a worker thread when run_in_thread is set and  *)
(* inside _on_click otherwise.  Python's None is "None"; a callable that   *)
(* is given is TRUE, one that is None is FALSE.  _on_success and _on_error *)
(* are two steps each: _stop_processing, then the callback.                *)
(***************************************************************************)
MaxExecutions == 2

\* how the backend function ends: it returns a value, returns None, raises
\* an Exception, or raises a BaseException that is no Exception (SystemExit)
BackendOutcomes == {"result", "None", "Exception", "SystemExit"}

\* how a callback ends
CallbackOutcomes == {"returns", "raises"}

\* TriggerButton._validate_mandatory_elements
validate_mandatory_elements(b) == b.elements_valid

\* TriggerButton._check_validation
check_validation(b) ==
    IF b.is_processing THEN b
    ELSE [b EXCEPT !.state = IF validate_mandatory_elements(b) /\ b.custom_valid
                             THEN "normal" ELSE "disabled"]

\* TriggerButton._start_processing
start_processing(b) ==
    [b EXCEPT !.is_processing = TRUE, !.text = "loading_text", !.state = "disabled"]

\* TriggerButton._stop_processing
stop_processing(b) ==
    check_validation([b EXCEPT !.is_processing = FALSE, !.text = "original_text"])

\* TriggerButton._on_success up to its callback (trigger_button.py:245-248)
on_success(b) == [stop_processing(b) EXCEPT !.handler = "on_success"]

\* TriggerButton._on_error up to its callback (trigger_button.py:253-256)
on_error(b) == [stop_processing(b) EXCEPT !.handler = "on_error"]

\* TriggerButton._check_pending_results
check_pending_results(b) ==
    IF b.result_pending # "None"
    THEN on_success([b EXCEPT !.result_pending = "None"])
    ELSE IF b.error_pending # "None"
         THEN on_error([b EXCEPT !.error_pending = "None"])
    ELSE b

\* trigger_button.py:77: the timer is armed again once both checks returned
rearm(b) == [b EXCEPT !.timer_armed = TRUE]

\* TriggerButton._schedule_validation_check, one period, up to the callback
\* of a pending result if there is one
schedule_validation_check(b) ==
    LET c == check_pending_results(check_validation([b EXCEPT !.timer_armed = FALSE]))
    IN  IF c.handler = "idle" THEN rearm(c) ELSE c

\* the rest of _on_success (trigger_button.py:249-251) or of _on_error
\* (trigger_button.py:257-261) and of the period: the result or the error is
\* handed to the callback when one is given; a callback that raises ends the
\* handler of the timer before the timer is armed again.  delivered counts
\* the results and errors the two handlers have dealt with.
finish_handler(b, outcome) ==
    LET given == IF b.handler = "on_success" THEN b.success_callback
                 ELSE b.error_callback
        done  == [b EXCEPT !.handler = "idle",
                           !.delivered = @ + 1,
                           !.last_callback =
                               IF ~given THEN "none given"
                               ELSE IF b.handler = "on_success" THEN "success"
                               ELSE "error"]
    IN  IF given /\ outcome = "raises" THEN done ELSE rearm(done)

\* _execute_backend once the backend function has ended (trigger_button.py:
\* 216-224): what it stores for the main thread
store_outcome(b, outcome) ==
    CASE outcome = "result"     -> [b EXCEPT !.result_pending = "result"]
      [] outcome = "None"       -> [b EXCEPT !.result_pending = "None"]
      [] outcome = "Exception"  -> [b EXCEPT !.error_pending = "Exception"]
      [] outcome = "SystemExit" -> b

\* _execute_backend before the backend function is entered (trigger_button.py:
\* 202-214): without a backend function the ValueError of line 204, or the
\* TypeError of calling None at 212/214, is caught and stored as the error
no_backend_function(b) == [b EXCEPT !.error_pending = "Exception"]

\* TriggerButton._execute_backend run in one piece (on the main thread)
execute_backend(b, outcome) ==
    IF ~b.backend_function THEN no_backend_function(b)
    ELSE store_outcome(b, outcome)

\* TriggerButton._on_click; started counts the executions begun, workers the
\* threads that are inside _execute_backend
on_click(b, outcome) ==
    IF b.is_processing \/ ~b.backend_function THEN b
    ELSE IF ~validate_mandatory_elements(b)
         THEN IF b.error_callback
              THEN [b EXCEPT !.last_callback = "error: missing elements"]
              ELSE b
    ELSE LET s == [start_processing(b) EXCEPT !.started = @ + 1]
         IN  IF b.run_in_thread THEN [s EXCEPT !.workers = @ + 1]
             ELSE execute_backend(s, outcome)

\* TriggerButton.set_backend_function
set_backend_function(b, func) == [b EXCEPT !.backend_function = func]

\* the button after __init__, which ends with one _schedule_validation_check
NewButtons ==
    {schedule_validation_check(
        [constructed      |-> TRUE,
         backend_function |-> f,
         run_in_thread    |-> t,
         elements_valid   |-> e,
         custom_valid     |-> c,
         success_callback |-> sc,
         error_callback   |-> ec,
         is_processing    |-> FALSE,
         state            |-> "normal",
         text             |-> "original_text",
         result_pending   |-> "None",
         error_pending    |-> "None",
         handler          |-> "idle",
         timer_armed      |-> FALSE,
         workers          |-> 0,
         worker_inside    |-> FALSE,
         started          |-> 0,
         delivered        |-> 0,
         last_callback    |-> "none",
         last_event       |-> "init"]) : f, t, e, c, sc, ec \in BOOLEAN}

InitButton ==
    /\ RunIdle
    /\ config_year = SolarFileYear
    /\ call = [fn |-> "none"]
    /\ ret = [done |-> FALSE]
    /\ button \in NewButtons
    /\ comparison_method = "missing"

\* the user clicks, or simulate_click is called: Tk runs the command of an
\* enabled button only, and no handler while another one runs
Click ==
    /\ button.handler = "idle"
    /\ button.state = "normal"
    /\ button.started < MaxExecutions
    /\ \E outcome \in BackendOutcomes :
          button' = [on_click(button, outcome) EXCEPT !.last_event = "click"]
    /\ UNCHANGED <<runVars, config_year, call, ret, comparison_method>>

\* the worker thread reads self.backend_function (trigger_button.py:203, 212,
\* 214), whatever the main thread has set since the click, and enters it; if
\* it reads None it stores the error and ends
EnterBackend ==
    /\ button.workers > 0
    /\ ~button.worker_inside
    /\ button' = IF button.backend_function
                 THEN [button EXCEPT !.worker_inside = TRUE,
                                     !.last_event = "worker enters"]
                 ELSE [no_backend_function(button) EXCEPT
                          !.workers = @ - 1, !.last_event = "worker"]
    /\ UNCHANGED <<runVars, config_year, call, ret, comparison_method>>

\* the backend function ends on the worker thread, which stores the outcome
\* and leaves _execute_backend
FinishBackend ==
    /\ button.workers > 0
    /\ button.worker_inside
    /\ \E outcome \in BackendOutcomes :
          button' = [store_outcome(button, outcome) EXCEPT
                        !.workers = @ - 1, !.worker_inside = FALSE,
                        !.last_event = "worker"]
    /\ UNCHANGED <<runVars, config_year, call, ret, comparison_method>>

\* the timer of self.after(check_interval, ...) fires
Tick ==
    /\ button.handler = "idle"
    /\ button.timer_armed
    /\ button' = [schedule_validation_check(button) EXCEPT !.last_event = "tick"]
    /\ UNCHANGED <<runVars, config_year, call, ret, comparison_method>>

\* the handler of the timer goes on after _stop_processing: the callback
Deliver ==
    /\ button.handler # "idle"
    /\ \E outcome \in CallbackOutcomes :
          button' = [finish_handler(button, outcome) EXCEPT !.last_event = "callback"]
    /\ UNCHANGED <<runVars, config_year, call, ret, comparison_method>>

\* TriggerButton.force_validate
ForceValidate ==
    /\ button.handler = "idle"
    /\ button' = [check_validation(button) EXCEPT !.last_event = "force_validate"]
    /\ UNCHANGED <<runVars, config_year, call, ret, comparison_method>>

\* TriggerButton.set_backend_function with a callable or with None
SetBackendFunction ==
    /\ button.handler = "idle"
    /\ \E func \in BOOLEAN :
          /\ func # button.backend_function
          /\ button' = [set_backend_function(button, func) EXCEPT
                           !.last_event = "set_backend_function"]
    /\ UNCHANGED <<runVars, config_year, call, ret, comparison_method>>

\* the user edits the mandatory elements, or what validate_function reads
Edit ==
    /\ button.handler = "idle"
    /\ \E e, c \in BOOLEAN :
          /\ <<e, c>> # <<button.elements_valid, button.custom_valid>>
          /\ button' = [button EXCEPT !.elements_valid = e, !.custom_valid = c,
                                      !.last_event = "edit"]
    /\ UNCHANGED <<runVars, config_year, call, ret, comparison_method>>

NextButton ==
    \/ Click
    \/ EnterBackend
    \/ FinishBackend
    \/ Tick
    \/ Deliver
    \/ ForceValidate
    \/ SetBackendFunction
    \/ Edit

SpecButton == InitButton /\ [][NextButton]_vars

\* Tk runs the timer while it is armed and a handler to its end, and the
\* worker thread runs until the backend function ends
SpecButtonLive ==
    /\ InitButton /\ [][NextButton]_vars
    /\ WF_vars(Tick) /\ WF_vars(Deliver)
    /\ WF_vars(EnterBackend) /\ WF_vars(FinishBackend)

(***************************************************************************)
(* Claims about the Daylight-Rule Evaluator and the Instant Matcher.       *)
(***************************************************************************)
\* the matcher has returned
MatchDone == call.fn = "match" /\ ret.done /\ ret.raised = "none"

\* the entry the matcher answered with
MatchedKey == call.lookup[ret.outcome.idx].k

\* distance of entry i from the computed instant, both in the entry's year
DistanceOf(i) ==
    SecondsApart(ReplaceYear(ret.probe1, call.lookup[i].k.year), call.lookup[i].k)

\* C9: is_daylight_period(month, day) is true for every day of April to
\* September, false for every day of January, February, November and
\* December, true in March exactly from day 31 on and true in October exactly
\* up to day 26.
C9_DaylightRule ==
    (call.fn = "is_dst_date" /\ ret.done) =>
        /\ call.month \in 4..9 => ret.value = TRUE
        /\ call.month \in {1, 2, 11, 12} => ret.value = FALSE
        /\ call.month = 3 => (ret.value <=> call.day >= 31)
        /\ call.month = 10 => (ret.value <=> call.day <= 26)

C9_Witness ==
    /\ call.fn = "is_dst_date" /\ ret.done
    /\ call.month = 10 /\ call.day = 26 /\ ret.value = TRUE

C5_TierOrder ==
    MatchDone =>
        LET wp     == call.point
            exact  == {i \in 1..Len(call.lookup) : call.lookup[i].k = ret.probe1}
            byHour == {i \in 1..Len(call.lookup) :
                          /\ call.lookup[i].k.month = wp.month
                          /\ call.lookup[i].k.day = wp.day
                          /\ call.lookup[i].k.hour = ret.probe2}
        IN  /\ \A i \in exact : /\ ret.outcome = [tier |-> 1, idx |-> i]
                                /\ ret.result = Found(call.lookup[i].v)
            /\ (exact = {} /\ byHour # {})
                   => /\ ret.outcome.tier = 2
                      /\ ret.outcome.idx \in byHour
                      /\ ret.result = Found(call.lookup[ret.outcome.idx].v)
            /\ ret.outcome.tier \in {0, 3} => (exact = {} /\ byHour = {})

C5_Witness ==
    /\ MatchDone
    /\ ret.outcome = [tier |-> 1, idx |-> 2]
    /\ call.lookup[1].k.month = call.point.month
    /\ call.lookup[1].k.day = call.point.day
    /\ call.lookup[1].k.hour = call.point.hour - 1
    /\ ret.result = Found(200)

\* C6: when the lookup has no entry at the exact instant, the matcher returns
\* the value of an entry whose month, day and hour equal the record's month,
\* day and computed hour (the weather hour on daylight-period dates, the
\* weather hour minus 1 otherwise), whatever the entry's year.
C6_Tier2ComputedHour ==
    MatchDone =>
        LET wp     == call.point
            exact  == {i \in 1..Len(call.lookup) : call.lookup[i].k = ret.probe1}
            byHour == {i \in 1..Len(call.lookup) :
                          /\ call.lookup[i].k.month = wp.month
                          /\ call.lookup[i].k.day = wp.day
                          /\ call.lookup[i].k.hour = ret.probe1.hour}
        IN  (exact = {} /\ byHour # {})
                => /\ ret.result.found
                   /\ ret.outcome.idx \in byHour

\* C7: when tiers 1 and 2 both miss, the matcher returns the value of the
\* entry closest in time to the computed instant (both in the same year) if
\* that entry lies within 30 minutes, and not-found when no entry does.
C7_ToleranceClosest ==
    MatchDone =>
        LET wp     == call.point
            byHour == {i \in 1..Len(call.lookup) :
                          /\ call.lookup[i].k.month = wp.month
                          /\ call.lookup[i].k.day = wp.day
                          /\ call.lookup[i].k.hour = ret.probe1.hour}
            within == {i \in 1..Len(call.lookup) : DistanceOf(i) <= 1800}
        IN  (ret.outcome.tier \notin {1, 2} /\ byHour = {})
                => IF within = {} THEN ~ret.result.found
                   ELSE /\ ret.result.found
                        /\ ret.outcome.idx \in within
                        /\ \A j \in within :
                               DistanceOf(ret.outcome.idx) <= DistanceOf(j)

InPass == pc = "records" /\ mode = "process"

\* the records of the current pass whose matched value is above the threshold
Exceeding == {i \in 1..wi : irradiances[i].found /\ irradiances[i].value > threshold}

\* C1: in one facade pass the adjustment counter equals the number of weather
\* records processed so far, and at the end of the pass of all weather
\* records, for which the Instant Matcher found a value strictly greater than
\* the threshold; a record whose value equals the threshold, is below it or is
\* not found does not count.
C1_CounterCountsExceeding ==
    InPass =>
        /\ Len(irradiances) = wi
        /\ \A i \in 1..wi :
               irradiances[i] = get_solar_irradiance_for_datetime(
                                    solar_lookup, weather_data[i], config_year)
        /\ adjustments_made = Cardinality(Exceeding)

C1_Witness ==
    /\ InPass
    /\ wi = Len(weather_data) /\ wi = 2
    /\ adjustments_made = 1
    /\ \E i \in 1..wi : irradiances[i].found /\ irradiances[i].value = threshold

\* C3: every record of the adjusted series whose matched irradiance strictly
\* exceeds the threshold has adjusted temperature - original temperature =
\* delta_t, and so has every sample adjustment of the preview.
C3_DeltaAdditivity ==
    /\ InPass =>
           \A i \in 1..Len(adjusted_weather_data) :
               (irradiances[i].found /\ irradiances[i].value > threshold)
                   => adjusted_weather_data[i].temperature
                          - weather_data[i].temperature = delta_t
    /\ \A i \in 1..Len(sample_adjustments) :
           sample_adjustments[i].adjusted_temp
               - sample_adjustments[i].original_temp = delta_t

C3_Witness ==
    /\ InPass
    /\ delta_t = 7
    /\ \E i \in 1..Len(adjusted_weather_data) :
           /\ irradiances[i].found /\ irradiances[i].value > threshold
           /\ adjusted_weather_data[i].temperature = 27
           /\ weather_data[i].temperature = 20

\* C4: every record for which the Instant Matcher returns not-found or a value
\* less than or equal to the threshold keeps its original temperature in the
\* adjusted series.
C4_NonAdjustmentUnchanged ==
    InPass =>
        \A i \in 1..Len(adjusted_weather_data) :
            (~irradiances[i].found \/ irradiances[i].value <= threshold)
                => adjusted_weather_data[i].temperature
                       = weather_data[i].temperature

C4_Witness ==
    /\ InPass
    /\ delta_t = 7
    /\ Len(adjusted_weather_data) = 2
    /\ ~irradiances[1].found
    /\ irradiances[2].found /\ irradiances[2].value = threshold
    /\ adjusted_weather_data[1].temperature = weather_data[1].temperature
    /\ adjusted_weather_data[2].temperature = weather_data[2].temperature

\* C10: in every run, processing or preview, the irradiance series is loaded
\* completely before loading of the weather series begins.
C10_SolarLoadedBeforeWeather ==
    \A i \in 1..Len(loads) :
        loads[i] = "weather" => \E j \in 1..(i - 1) : loads[j] = "solar"

\* both files were loaded and the run did not fail
Loaded == pc \in {"solar_loaded", "facades", "records", "done"}

\* C11: in every run the reference year of every weather-record-to-instant
\* conversion (the year of each loaded record's timestamp and the year the
\* matcher probes with) equals the year of the first irradiance record.
C11_ReferenceYearFromIrradiance ==
    Loaded =>
        /\ config_year = solar_data[1].timestamp.year
        /\ \A i \in 1..Len(weather_data) :
               weather_data[i].timestamp.year = solar_data[1].timestamp.year

\* the same month, day and hour
SameSlot(a, b) == a.month = b.month /\ a.day = b.day /\ a.hour = b.hour

\* C12: for every facade a caller names, with or without a matching
\* irradiance column, the series process_facade_data hands over has as many
\* records as the original weather series and its i-th record has the month,
\* day and hour of the i-th original record; the series being built in a
\* pass is such a prefix.
C12_SameLengthAndOrder ==
    /\ \A e \in 1..Len(ret.results) :
           /\ Len(ret.results[e].data) = Len(weather_data)
           /\ \A i \in 1..Len(weather_data) :
                  SameSlot(ret.results[e].data[i], weather_data[i])
    /\ InPass =>
           /\ Len(adjusted_weather_data) = wi
           /\ \A i \in 1..wi : SameSlot(adjusted_weather_data[i], weather_data[i])

\* two records of different months, handed over for a facade without a
\* column and for a facade with one adjusted record
C12_Witness ==
    /\ pc = "engine"
    /\ Len(weather_data) = 2
    /\ weather_data[1].month # weather_data[2].month
    /\ \E e, f \in 1..Len(ret.results) :
           /\ ret.results[e].facade = FacadeF3
           /\ ret.results[f].facade = FacadeF1
           /\ ret.results[f].metadata = create_adjusted_metadata(1)

\* the data lines of the original file with the temperature field of each
\* parsed line replaced by the temperature of its record in data
RECURSIVE MergedLines(_, _)
MergedLines(lines, data) ==
    IF lines = <<>> THEN <<>>
    ELSE IF ValidTemperature(Head(lines).temperature) /\ data # <<>>
    THEN <<[Head(lines) EXCEPT !.temperature = Head(data).temperature]>>
             \o MergedLines(Tail(lines), Tail(data))
    ELSE <<Head(lines)>> \o MergedLines(Tail(lines), data)

\* C13: the output file written for a facade holds the original file's data
\* lines, except that the line of each adjusted record carries that record's
\* adjusted temperature in its temperature field (stated for the files all of
\* whose data lines were parsed).
C13_OutputCarriesAdjustedTemperature ==
    Len(weather_data) = Len(weather_file.lines) =>
        \A e \in 1..Len(output_files) :
            output_files[e].v.lines =
                MergedLines(weather_file.lines, output_files[e].v.data)

\* the record objects of the e-th saved facade result
ResultObjects(e) ==
    {output_files[e].v.oids[i] : i \in 1..Len(output_files[e].v.oids)}

\* the record objects of the original weather series
OriginalObjects ==
    {OriginalIds(Len(weather_data))[i] : i \in 1..Len(weather_data)}

\* C14: in a run, processing a facade leaves the original weather series as
\* it was loaded, and no record object of a facade's result is a record
\* object of the original series or of another facade's result.
C14_NoSharedRecords ==
    /\ pc \in {"facades", "records", "done"} =>
           weather_data = parse_data_lines(weather_file.lines, config_year)
    /\ \A e \in 1..Len(output_files) :
           /\ ResultObjects(e) \cap OriginalObjects = {}
           /\ \A f \in 1..Len(output_files) :
                  e # f => ResultObjects(e) \cap ResultObjects(f) = {}

\* a finished run over two records and two facades, one of them with an
\* adjusted record
C14_Witness ==
    /\ pc = "done" /\ mode = "process"
    /\ Len(weather_data) = 2
    /\ Len(output_files) = 2
    /\ \E e \in 1..2 : output_files[e].v.metadata.adjustments >= 1

\* a and b agree in every field other than temperature
SameButTemperature(a, b) == [a EXCEPT !.temperature = b.temperature] = b

\* C15: in every facade result, and in the series being built in a pass, each
\* adjusted record equals its original record in every field other than
\* temperature (month, day, hour and timestamp).
C15_OnlyTemperatureChanges ==
    /\ \A e \in 1..Len(output_files) :
           \A i \in 1..Len(output_files[e].v.data) :
               SameButTemperature(output_files[e].v.data[i], weather_data[i])
    /\ InPass =>
           \A i \in 1..Len(adjusted_weather_data) :
               SameButTemperature(adjusted_weather_data[i], weather_data[i])

C15_Witness ==
    /\ pc = "done"
    /\ \E e \in 1..Len(output_files) :
           \E i \in 1..Len(output_files[e].v.data) :
               /\ output_files[e].v.data[i].temperature = 27
               /\ weather_data[i].temperature = 20
               /\ output_files[e].v.data[i].timestamp = weather_data[i].timestamp
               /\ output_files[e].v.data[i].hour = weather_data[i].hour

\* no column of the export names both the facade and the building body
NoColumn(pair) ==
    \A c \in 1..Len(facade_columns) :
        ~(Contains(pair[1], facade_columns[c]) /\ Contains(pair[2], facade_columns[c]))

\* C16: for a facade that no irradiance column matches, process_facade_data
\* hands back a no-data result: the series equal to the original weather
\* series (no record adjusted) with the metadata as loaded, which names no
\* adjustment; the call raises no error (a failure arises in the pass of a
\* facade that has a column), and after it the caller's next facade can be
\* processed.
C16_NoColumnNoData ==
    /\ \A e \in 1..Len(ret.results) :
           NoColumn(ret.results[e].facade) =>
               /\ ret.results[e].data = weather_data
               /\ ret.results[e].metadata = OriginalMetadata
    /\ (call.fn = "process_facade_data" /\ NoColumn(call.facade)) =>
           /\ pc = "engine"
           /\ error = "none"
           /\ ret.results # <<>>
           /\ ret.results[Len(ret.results)].facade = call.facade
    /\ pc = "failed" => ~NoColumn(call.facade)

\* the facade without a column first, then a facade with two adjusted
\* records
C16_Witness ==
    /\ pc = "engine"
    /\ Len(ret.results) = 2
    /\ ret.results[1].facade = FacadeF3
    /\ NoColumn(FacadeF3)
    /\ ret.results[1].data = weather_data
    /\ ret.results[2].facade = FacadeF1
    /\ ret.results[2].metadata = create_adjusted_metadata(2)

\* C17: once both source files have been read, nothing that arises while a
\* record or a facade is processed aborts the run: a run that failed, failed
\* while loading, before any irradiance data was there.
C17_NoAbortAfterLoading ==
    pc = "failed" => solar_data = <<>> /\ facade_combinations = <<>>

\* the run was aborted with error e: no facade was processed, nothing produced
AbortedWith(e) ==
    /\ pc = "failed"
    /\ error = e
    /\ facade_combinations = <<>> /\ fi = 0
    /\ adjusted_weather_data = <<>>
    /\ output_files = <<>>
    /\ adjustments_by_facade = <<>>
    /\ sample_adjustments = <<>>

\* what a reader raises for a file that is not "ok"
ReaderError(file) ==
    IF file.status = "missing" THEN "FileNotFoundError"
    ELSE "ValueError: Failed to parse"

\* C18: when a source file is missing or unreadable, then from the moment its
\* load was attempted the run is aborted, with no facade processed and no
\* output, and the error the run raises is the one its reader raised.
C18_MissingFileAborts ==
    /\ (weather_file.status # "ok" /\ pc # "start")
           => AbortedWith(ReaderError(weather_file)) /\ solar_data = <<>>
    /\ (weather_file.status = "ok" /\ solar_file.status # "ok"
            /\ pc \notin {"start", "weather_loaded"})
           => AbortedWith(ReaderError(solar_file)) /\ solar_data = <<>>

C18_Witness ==
    /\ weather_file.status = "ok"
    /\ Len(weather_data) = 2
    /\ solar_file.status = "missing"
    /\ loads = <<"weather", "solar">>
    /\ AbortedWith("FileNotFoundError")

\* C19: when the irradiance export holds no data row, the run is aborted with
\* an error from the moment the export was loaded, and no facade is started
\* and no result or output exists while the irradiance series is empty.
C19_EmptyIrradianceAborts ==
    /\ (weather_file.status = "ok" /\ solar_file.status = "ok"
            /\ solar_file.rows = <<>> /\ pc \notin {"start", "weather_loaded"})
           => AbortedWith("ValueError: No data points found")
    /\ (fi > 0 \/ output_files # <<>> \/ adjustments_by_facade # <<>>
            \/ sample_adjustments # <<>>)
           => solar_data # <<>>

C19_Witness ==
    /\ weather_file.status = "ok"
    /\ Len(weather_data) = 2
    /\ solar_file.status = "ok"
    /\ solar_file.rows = <<>>
    /\ solar_data = <<>>
    /\ loads = <<"weather", "solar">>
    /\ AbortedWith("ValueError: No data points found")

\* C20 as stated: whenever the first record has local hour 1, the index
\* built for any facade holds an entry at local hour 0 of the first date, and
\* its value is the hour-1 record's value for that facade.
C20_MidnightGapAnyFacade ==
    (/\ call.fn = "index" /\ ret.done
     /\ call.rows # <<>>
     /\ call.rows[1].timestamp.hour = 1)
        => LET zero == [call.rows[1].timestamp EXCEPT !.hour = 0, !.minute = 0]
               i    == DictIndex(ret.lookup, zero)
           IN  /\ i # 0
               /\ call.column <= Len(call.rows[1].cells)
                      => ret.lookup[i].v = call.rows[1].cells[call.column]

\* the records of a series dated at an instant that carry a value in a column
RecordsAt(rows, instant, column) ==
    {j \in 1..Len(rows) : rows[j].timestamp = instant /\ column <= Len(rows[j].cells)}

\* the largest element of a non-empty set of positions
LastOf(S) == CHOOSE j \in S : \A k \in S : k <= j

\* C20: for an irradiance series whose first record has local hour 1 and
\* carries a value for a facade, the index built for that facade contains an
\* entry for local hour 0 of the first date; its value is the hour-1 record's
\* value for that facade unless records of the series are themselves dated at
\* that instant and carry a value for the facade, and then it is the value of
\* the last such record.
C20_MidnightGap ==
    (/\ call.fn = "index" /\ ret.done
     /\ call.rows # <<>>
     /\ call.rows[1].timestamp.hour = 1
     /\ call.column <= Len(call.rows[1].cells))
        => LET zero  == [call.rows[1].timestamp EXCEPT !.hour = 0, !.minute = 0]
               i     == DictIndex(ret.lookup, zero)
               later == RecordsAt(call.rows, zero, call.column)
           IN  /\ i # 0
               /\ ret.lookup[i].v =
                      IF later = {} THEN call.rows[1].cells[call.column]
                      ELSE call.rows[LastOf(later)].cells[call.column]

\* a series whose first record has local hour 1 and no value for the facade:
\* the index built for the facade has no entry at local hour 0
C20_FirstRecordWithoutValue ==
    /\ call.fn = "index" /\ ret.done
    /\ call.rows = <<[timestamp |-> Instant(SolarFileYear, 1, 15, 1, 0),
                      cells |-> <<100>>]>>
    /\ call.column = 2
    /\ ret.lookup = <<>>

\* a series whose first record has local hour 1 and a later record is dated
\* at local hour 0 of the same date: the index holds the later record's value
C20_LaterMidnightRecord ==
    /\ call.fn = "index" /\ ret.done
    /\ call.rows = <<[timestamp |-> Instant(SolarFileYear, 1, 15, 1, 0),
                      cells |-> <<300, 200>>],
                     [timestamp |-> Instant(SolarFileYear, 1, 15, 0, 0),
                      cells |-> <<50, 60>>]>>
    /\ call.column = 1
    /\ ret.lookup = <<[k |-> Instant(SolarFileYear, 1, 15, 0, 0), v |-> 50],
                      [k |-> Instant(SolarFileYear, 1, 15, 1, 0), v |-> 300]>>

C20_Witness ==
    /\ call.fn = "index" /\ ret.done
    /\ Len(call.rows) = 2
    /\ call.rows[1].timestamp.hour = 1 /\ call.rows[1].cells = <<300, 200>>
    /\ call.rows[2].timestamp.hour = 2 /\ call.rows[2].cells = <<50, 60>>
    /\ call.column = 2
    /\ ret.lookup = <<[k |-> Instant(SolarFileYear, 1, 15, 0, 0), v |-> 200],
                      [k |-> Instant(SolarFileYear, 1, 15, 1, 0), v |-> 200],
                      [k |-> Instant(SolarFileYear, 1, 15, 2, 0), v |-> 60]>>

\* the instants of a sequence of data points
InstantsOf(points) == {points[i].timestamp : i \in 1..Len(points)}

\* C21: the missing-midnight correction adds one record exactly when the
\* first row has local hour 1 and none otherwise; applied to its own result,
\* or to a series that starts at local hour 0, it changes nothing; and the
\* indexes built for the facades hold only instants of the corrected series.
C21_CorrectionOnce ==
    (call.fn = "index" /\ ret.done) =>
        /\ Len(ret.points) =
               Len(call.rows)
                   + (IF call.rows # <<>> /\ call.rows[1].timestamp.hour = 1
                      THEN 1 ELSE 0)
        /\ \A i \in 1..Len(call.rows) :
               ret.points[Len(ret.points) - Len(call.rows) + i].timestamp
                   = call.rows[i].timestamp
        /\ apply_ida_workaround(ret.points) = ret.points
        /\ \A c \in 1..Len(ret.lookups) :
               /\ DictKeys(ret.lookups[c]) \subseteq InstantsOf(ret.points)
               /\ Len(ret.lookups[c]) <= Cardinality(InstantsOf(ret.points))

C21_Witness ==
    /\ call.fn = "index" /\ ret.done
    /\ Len(call.rows) = 2
    /\ call.rows[1].timestamp.hour = 1 /\ call.rows[2].timestamp.hour = 2
    /\ call.rows[1].cells = <<300, 200>> /\ call.rows[2].cells = <<50, 60>>
    /\ Len(ret.points) = 3
    /\ ret.points[1].timestamp.hour = 0
    /\ Len(ret.lookups[1]) = 3 /\ Len(ret.lookups[2]) = 3

\* the sum of the counts of a facade-key -> count dict
RECURSIVE SumCounts(_)
SumCounts(d) == IF d = <<>> THEN 0 ELSE Head(d).v + SumCounts(Tail(d))

\* the count a dict holds for a key, 0 when the key is absent
CountOf(d, key) == IF DictIndex(d, key) = 0 THEN 0 ELSE d[DictIndex(d, key)].v

\* a second run completed after a completed first run of the same kind
TwoRunsDone(m) ==
    /\ pc = "done" /\ mode = m
    /\ history # <<>> /\ ~history[1].failed /\ history[1].mode = m

\* C22: for the same weather file, irradiance file and delta_t, two completed
\* runs of the same kind with thresholds T1 < T2 report a total adjustment
\* count, and a count for every facade, at T1 that is greater than or equal to
\* the one at T2.
C22_MonotonicThreshold ==
    \A m \in {"process", "preview"} :
        TwoRunsDone(m) =>
            LET first  == history[1].counts
                second == RunCounts
            IN  /\ history[1].threshold < threshold =>
                       /\ SumCounts(first) >= SumCounts(second)
                       /\ \A e \in 1..Len(second) :
                              CountOf(first, second[e].k) >= second[e].v
                /\ threshold < history[1].threshold =>
                       /\ SumCounts(second) >= SumCounts(first)
                       /\ \A e \in 1..Len(first) :
                              CountOf(second, first[e].k) >= first[e].v

C22_Witness ==
    /\ TwoRunsDone("preview")
    /\ history[1].threshold = 0 /\ threshold = 200
    /\ SumCounts(history[1].counts) = 4
    /\ SumCounts(RunCounts) = 2

(***************************************************************************)
(* Claims about the facade catalog (SpecCatalog).                          *)
(***************************************************************************)
CatalogDone == call.fn = "catalog" /\ ret.done

\* the facade read from one column label, <<>> components when a pattern fails
IdentityOf(column) == <<SearchFacadeId(column), SearchBuildingBody(column)>>

\* the distinct facades of a list of column labels
Identities(columns) ==
    {IdentityOf(columns[i]) :
        i \in {j \in 1..Len(columns) : /\ IdentityOf(columns[j])[1] # <<>>
                                       /\ IdentityOf(columns[j])[2] # <<>>}}

\* the orders of the list s
Permutations(s) ==
    {[i \in 1..Len(s) |-> s[p[i]]] :
        p \in {q \in [1..Len(s) -> 1..Len(s)] :
                  \A i, j \in 1..Len(s) : i # j => q[i] # q[j]}}

CatalogLabel(id, body) == HeaderLabel(id \o <<"$">> \o body)

\* C23: when a processing run has ended, its result dictionary and its
\* output files hold exactly one entry and one file for each distinct facade
\* read from the irradiance columns, and two distinct facades never share a
\* result key or an output file.
C23_OneResultPerFacade ==
    (mode = "process" /\ pc \in {"done", "failed"}) =>
        /\ Len(output_files) = Cardinality(Identities(facade_columns))
        /\ \A id \in Identities(facade_columns) :
              Cardinality({i \in 1..Len(output_files) :
                              output_files[i].k = FacadeKey(id[1], id[2])}) = 1
        /\ \A i, j \in 1..Len(output_files) :
              i # j => /\ output_files[i].k # output_files[j].k
                       /\ output_files[i].v.file # output_files[j].v.file

\* C24: the facade working set holds every distinct (facade, building body)
\* pair of the column labels exactly once, in ascending order, and is the
\* same list for every order of the column labels.
C24_SortedDistinctAnyOrder ==
    CatalogDone =>
        /\ {ret.combinations[i] : i \in 1..Len(ret.combinations)}
              = Identities(call.columns)
        /\ \A i, j \in 1..Len(ret.combinations) :
              i < j => PairLess(ret.combinations[i], ret.combinations[j])
        /\ \A columns \in Permutations(call.columns) :
              extract_facade_combinations(columns) = ret.combinations

\* columns in descending order, one facade twice
C24_Witness ==
    /\ CatalogDone
    /\ call.columns =
          <<CatalogLabel(<<"f", "2">>, <<"Building body">>),
            CatalogLabel(<<"f", "1", "0">>, <<"Building body", " ", "2">>),
            CatalogLabel(<<"f", "2">>, <<"Building body">>)>>
    /\ ret.combinations =
          <<<<<<"f", "1", "0">>, <<"Building body", " ", "2">>>>,
            <<<<"f", "2">>, <<"Building body">>>>>>

\* C27: the column found for an extracted facade is a label from which that
\* same facade is read, in any order of the labels.
C27_LookupFindsOwnColumn ==
    CatalogDone =>
        \A i \in 1..Len(ret.combinations) :
            /\ ret.found[i] # <<>>
            /\ IdentityOf(ret.found[i]) = ret.combinations[i]

(***************************************************************************)
(* Claims about the Temporal Index Builder (SpecIndex), continued.         *)
(***************************************************************************)
\* the positions of the parsed records that carry a value for column c
Carrying(c) ==
    {i \in 1..Len(ret.points) :
        DictIndex(ret.points[i].irradiance_values, SolarColumns[c]) # 0}

\* the value record i carries for column c
ValueAt(i, c) ==
    ret.points[i].irradiance_values[
        DictIndex(ret.points[i].irradiance_values, SolarColumns[c])].v

\* C25: the index of a column has exactly one entry for each distinct
\* instant among the records that carry a value for the column, and the
\* entry's value is that of the last such record with the instant.
C25_OneEntryPerInstantLastWins ==
    (call.fn = "index" /\ ret.done) =>
        \A c \in 1..Len(SolarColumns) :
            LET lookup == ret.lookups[c]
            IN  /\ DictKeys(lookup) = {ret.points[i].timestamp : i \in Carrying(c)}
                /\ Len(lookup) = Cardinality(DictKeys(lookup))
                /\ \A i \in Carrying(c) :
                      (\A j \in Carrying(c) :
                          ret.points[j].timestamp = ret.points[i].timestamp => j <= i)
                          => lookup[DictIndex(lookup, ret.points[i].timestamp)].v
                                 = ValueAt(i, c)

\* two records of one instant with different values: one entry, the later value
C25_Witness ==
    /\ call.fn = "index" /\ ret.done
    /\ Len(ret.points) = 2
    /\ ret.points[1].timestamp = ret.points[2].timestamp
    /\ Carrying(1) = {1, 2}
    /\ ValueAt(1, 1) = 300 /\ ValueAt(2, 1) = 50
    /\ Len(ret.lookups[1]) = 1
    /\ ret.lookups[1][1].v = 50

(***************************************************************************)
(* Claims about the row limit of the solar reader (SpecLimit).             *)
(***************************************************************************)
\* C26: a parser constructed with a positive max_rows returns at most
\* max_rows data points.
C26_AtMostMaxRows ==
    (call.fn = "parse" /\ ret.done) => Len(ret.points) <= call.max_rows

(***************************************************************************)
(* Claims about the preview and the processing of the same files           *)
(* (SpecRuns).                                                             *)
(***************************************************************************)
\* a processing run that has ended, after a preview of the same files with
\* the same threshold and delta_t
ProcessedAfterPreview ==
    /\ pc \in {"done", "failed"} /\ mode = "process"
    /\ history # <<>> /\ history[1].mode = "preview" /\ ~history[1].failed
    /\ history[1].threshold = threshold

\* the number of records the processing run has adjusted for the facade of a key
AdjustedFor(key) ==
    IF DictIndex(output_files, key) # 0
    THEN output_files[DictIndex(output_files, key)].v.metadata.adjustments
    ELSE IF pc = "failed" /\ fi \in 1..Len(facade_combinations) /\ CurrentKey = key
         THEN adjustments_made
    ELSE 0

\* C28: for the same files, threshold and delta_t the preview reports for
\* each facade the number of records the processing adjusts for that facade.
C28_PreviewPredictsProcessing ==
    ProcessedAfterPreview =>
        \A i \in 1..Len(history[1].counts) :
            history[1].counts[i].v = AdjustedFor(history[1].counts[i].k)

(***************************************************************************)
(* Claims about the TriggerButton (SpecButton, SpecButtonLive).            *)
(***************************************************************************)
\* an execution has been started and its result has not been delivered
InFlight == button.started > button.delivered

\* C29: after a click has started the backend function, the button
\* eventually leaves the processing state and the result of the execution
\* has been handed to exactly one of the two callbacks, whatever the backend
\* function returns or raises.
C29_EventuallyDelivered ==
    button.is_processing ~>
        (~button.is_processing /\ button.delivered = button.started)

\* C30: at most one execution of the backend function is in progress: from
\* the click that starts an execution until its result or error has been
\* delivered, no further execution is started and the button stays disabled
\* and in the processing state.
C30_OneExecutionAtATime ==
    /\ button.workers <= 1
    /\ button.started - button.delivered <= 1
    /\ InFlight => (button.is_processing /\ button.state = "disabled")

====
